---- MODULE Spec2Model ----
(***************************************************************************)
(* A model of the Readwise RAG repository:                                 *)
(*   - data_ingestion/ingest.py   process_highlights_to_documents, __main__*)
(*   - data_ingestion/readwise_client.py   get_readwise_token,             *)
(*                                         fetch_all_highlights            *)
(*   - rag_pipeline/pipeline.py   setup_pipeline, query_knowledge_base     *)
(*   - vector_store/store_manager.py, llm_interface/generator.py           *)
(*                                                                         *)
(* Python values are records [t, v]: t is the Python type, v the payload.  *)
(* A str is a sequence of tokens (characters, or fixed literals kept as    *)
(* one token), an int is its decimal digits, a list is a sequence.  A dict *)
(* is a function from its keys.                                            *)
(***************************************************************************)
EXTENDS Integers, Sequences, FiniteSets, TLC

\* ------------------------------------------------------------- bounds
\* Most raw highlights in one export, over all of its sources.
MaxHighlights == 3
\* Most sources in one export.
MaxSources == 2

\* ------------------------------------------------------ Python values
None == [t |-> "null", v |-> <<>>]
PyStr(s) == [t |-> "str", v |-> s]
PyInt(d) == [t |-> "int", v |-> d]
PyList(xs) == [t |-> "list", v |-> xs]

\* bool(x): None, 0, "" and [] are falsy.
Truthy(x) ==
    CASE x.t = "null" -> FALSE
      [] x.t = "int" -> x.v # <<"0">>
      [] OTHER -> x.v # <<>>

\* d.get(k, default)
Get(d, k, default) == IF k \in DOMAIN d THEN d[k] ELSE default

IsSpace(c) == c \in {" ", "\n", "\t"}

RECURSIVE LStrip(_)
LStrip(s) == IF s # <<>> /\ IsSpace(Head(s)) THEN LStrip(Tail(s)) ELSE s

RECURSIVE RStrip(_)
RStrip(s) ==
    IF s # <<>> /\ IsSpace(s[Len(s)]) THEN RStrip(SubSeq(s, 1, Len(s) - 1)) ELSE s

\* str.strip()
Strip(s) == RStrip(LStrip(s))

\* sep.join(names)
RECURSIVE Join(_, _)
Join(sep, names) ==
    IF names = <<>> THEN <<>>
    ELSE IF Len(names) = 1 THEN <<names[1]>>
    ELSE <<names[1]>> \o sep \o Join(sep, Tail(names))

\* f"{x}" of an int or a str
Format(x) == x.v

\* ------------------------------------- process_highlights_to_documents
book_metadata_keys ==
    {"user_book_id", "title", "author", "readable_title", "source",
     "cover_image_url", "unique_url", "category", "document_note"}

\* A tag dict {"name": n} is kept as its name n; iterating anything but a
\* list of tag dicts raises.
TagsIterable(tags_raw) == tags_raw.t = "list"

\* ", ".join(names) if names else ""
TagString(tags_raw) == PyStr(Join(<<", ">>, tags_raw.v))

\* common_metadata of one source (lines 40-46)
CommonMetadata(source_data) ==
    LET present == {k \in book_metadata_keys : Get(source_data, k, None) # None}
    IN  ("book_tags" :> TagString(Get(source_data, "book_tags", PyList(<<>>))))
            @@ [k \in present |-> source_data[k]]

\* {k: v for k, v in highlight_metadata.items() if v is not None} (line 85)
KeepNone(d) == d
DropNone(d) == [k \in {x \in DOMAIN d : d[x] # None} |-> d[k]]

\* highlight_metadata of one highlight (lines 72-85)
HighlightMetadata(common, highlight) ==
    LET update ==
            [highlight_id |-> Get(highlight, "id", None),
             highlighted_at |-> Get(highlight, "highlighted_at", None),
             highlight_url |-> Get(highlight, "url", None),
             updated_at |-> Get(highlight, "updated_at", None),
             color |-> Get(highlight, "color", None),
             highlight_tags |-> TagString(Get(highlight, "tags", PyList(<<>>)))]
    IN  DropNone(update @@ common)

\* document_text (lines 67-70)
TextOnly(highlight) == Get(highlight, "text", PyStr(<<>>))
DocumentText(highlight) ==
    LET highlight_text == Get(highlight, "text", PyStr(<<>>))
        highlight_note == Get(highlight, "note", PyStr(<<>>))
    IN  IF Truthy(highlight_note)
        THEN PyStr(highlight_text.v \o <<"\n\nNote: ">> \o Format(highlight_note))
        ELSE highlight_text

\* id_ of the Document (line 92)
DocumentId(highlight_id) == PyStr(<<"readwise_highlight_">> \o Format(highlight_id))

Document(text, metadata, id_) == [text |-> text, metadata |-> metadata, id_ |-> id_]

\* if not highlight_id (line 53)
SkipsMissingOnly(highlight_id) == highlight_id = None
SkipsHighlight(highlight_id) == ~Truthy(highlight_id)

\* highlight_id in processed_highlight_ids (line 57)
NeverDuplicate(highlight_id, seen) == FALSE
IsDuplicate(highlight_id, seen) == highlight_id \in seen

\* processed_highlight_ids.add(highlight_id) of an empty-text highlight (line 64)
ForgetEmpty(seen, highlight_id) == seen
MarkEmpty(seen, highlight_id) == seen \cup {highlight_id}

\* processed_highlight_ids.add(highlight_id) after the append (line 95)
ForgetProcessed(seen, highlight_id) == seen
MarkProcessed(seen, highlight_id) == seen \cup {highlight_id}

VARIABLES
    raw_export_data,          \* the argument
    src_idx,                  \* position of `for source_data in raw_export_data`
    hl_idx,                   \* position of `for highlight in highlights`; 0: source not entered
    common_metadata,
    llama_documents,
    processed_highlight_ids,
    norm_pc,                  \* "idle" (not called), "loop", "returned", "raised"
    visited,                  \* history: number of highlights the loop has taken
    emitted_at,               \* history: for each document, the flat index and the source of its highlight
    construct_failed          \* history: flat indexes whose Document() raised

normVars ==
    <<raw_export_data, src_idx, hl_idx, common_metadata, llama_documents,
      processed_highlight_ids, norm_pc, visited, emitted_at, construct_failed>>

VARIABLES
    query_engine_global,      \* _query_engine_global
    Settings,                 \* llama_index Settings: embed_model, llm
    store,                    \* the persisted store: directory and collection
    pc,                       \* each caller's position
    frame,                    \* each caller's arguments and locals
    calls,                    \* how often each construction step was called
    calls_started,            \* number of calls made so far
    setup_log,                \* history: how each setup_pipeline call ended
    query_log                 \* history: how each query_knowledge_base call ended

pipeVars ==
    <<query_engine_global, Settings, store, pc, frame, calls, calls_started,
      setup_log, query_log>>

VARIABLES
    run,                      \* which run of process_highlights_to_documents this is: 1 or 2
    first_documents,          \* what the first run returned, once a second has begun
    first_outcome,            \* how the first run ended: "returned" or "raised"
    first_failed              \* the flat indexes whose Document() raised in the first run

rerunVars == <<run, first_documents, first_outcome, first_failed>>

VARIABLES
    pages,                    \* the server's export: the response envelope of each page
    full_data,
    next_page_cursor,
    fetch_pc,                 \* "idle", "loop", "returned"
    requests_made,            \* history: the pageCursor and the answer of each request
    slept                     \* history: the argument of each time.sleep()

fetchVars == <<pages, full_data, next_page_cursor, fetch_pc, requests_made, slept>>

VARIABLES
    env_token,                \* os.getenv("READWISE_API_KEY"): None when unset
    ingest_pc,                \* position of the __main__ block of ingest.py; "idle": not run
    ingest_report,            \* what the __main__ block logged at its end
    embed_model,              \* local of the __main__ block
    stored_ids,               \* the ids of the documents in the collection
    token_reads               \* history: number of reads of READWISE_API_KEY

ingestVars == <<env_token, ingest_pc, ingest_report, embed_model, stored_ids, token_reads>>

\* What the normalizer leaves alone, what the pipeline leaves alone, and what
\* fetch_all_highlights leaves alone.
outsideNormalizer == <<pipeVars, rerunVars, fetchVars, ingestVars>>
outsidePipeline == <<normVars, rerunVars, fetchVars, ingestVars>>
outsideFetch == <<normVars, pipeVars, rerunVars, ingestVars>>

vars == <<normVars, pipeVars, rerunVars, fetchVars, ingestVars>>

Highlights(source_data) == Get(source_data, "highlights", <<>>)

\* Lines 38-49: take the next source and compute its common metadata.
EnterSource ==
    /\ UNCHANGED outsideNormalizer
    /\ norm_pc = "loop"
    /\ src_idx <= Len(raw_export_data)
    /\ hl_idx = 0
    /\ LET source_data == raw_export_data[src_idx]
       IN  IF ~TagsIterable(Get(source_data, "book_tags", PyList(<<>>)))
           THEN /\ norm_pc' = "raised"
                /\ UNCHANGED <<src_idx, hl_idx, common_metadata>>
           ELSE /\ common_metadata' = CommonMetadata(source_data)
                /\ IF Highlights(source_data) = <<>>
                   THEN src_idx' = src_idx + 1 /\ hl_idx' = 0
                   ELSE src_idx' = src_idx /\ hl_idx' = 1
                /\ UNCHANGED norm_pc
    /\ UNCHANGED <<raw_export_data, llama_documents, processed_highlight_ids,
                   visited, emitted_at, construct_failed>>

\* The loop moves to the next highlight, or to the next source.
Advance ==
    IF hl_idx = Len(Highlights(raw_export_data[src_idx]))
    THEN src_idx' = src_idx + 1 /\ hl_idx' = 0
    ELSE src_idx' = src_idx /\ hl_idx' = hl_idx + 1

\* Lines 51-99: one pass of the loop body; document_ok is whether Document()
\* returns (TRUE) or raises (FALSE).
ProcessHighlight(document_ok) ==
    /\ UNCHANGED outsideNormalizer
    /\ norm_pc = "loop"
    /\ src_idx <= Len(raw_export_data)
    /\ hl_idx >= 1
    /\ visited' = visited + 1
    /\ LET highlight == Highlights(raw_export_data[src_idx])[hl_idx]
           highlight_id == Get(highlight, "id", None)
           highlight_text == Get(highlight, "text", PyStr(<<>>))
       IN  IF SkipsHighlight(highlight_id)
           THEN \* lines 53-55
                /\ Advance
                /\ UNCHANGED <<llama_documents, processed_highlight_ids, norm_pc,
                               emitted_at, construct_failed>>
           ELSE IF IsDuplicate(highlight_id, processed_highlight_ids)
           THEN \* lines 57-59
                /\ Advance
                /\ UNCHANGED <<llama_documents, processed_highlight_ids, norm_pc,
                               emitted_at, construct_failed>>
           ELSE IF highlight_text.t # "str"
           THEN \* line 62: None has no strip()
                /\ norm_pc' = "raised"
                /\ UNCHANGED <<src_idx, hl_idx, llama_documents,
                               processed_highlight_ids, emitted_at, construct_failed>>
           ELSE IF Strip(highlight_text.v) = <<>>
           THEN \* lines 62-65
                /\ processed_highlight_ids' = MarkEmpty(processed_highlight_ids, highlight_id)
                /\ Advance
                /\ UNCHANGED <<llama_documents, norm_pc, emitted_at, construct_failed>>
           ELSE IF ~TagsIterable(Get(highlight, "tags", PyList(<<>>)))
           THEN \* line 75: None is not iterable
                /\ norm_pc' = "raised"
                /\ UNCHANGED <<src_idx, hl_idx, llama_documents,
                               processed_highlight_ids, emitted_at, construct_failed>>
           ELSE IF document_ok
           THEN \* lines 89-95
                /\ llama_documents' =
                       Append(llama_documents,
                              Document(DocumentText(highlight),
                                       HighlightMetadata(common_metadata, highlight),
                                       DocumentId(highlight_id)))
                /\ processed_highlight_ids' =
                       MarkProcessed(processed_highlight_ids, highlight_id)
                /\ emitted_at' = Append(emitted_at, [at |-> visited + 1, src |-> src_idx])
                /\ Advance
                /\ UNCHANGED <<norm_pc, construct_failed>>
           ELSE \* lines 96-99
                /\ construct_failed' = construct_failed \cup {visited + 1}
                /\ Advance
                /\ UNCHANGED <<llama_documents, processed_highlight_ids, norm_pc,
                               emitted_at>>
    /\ UNCHANGED <<raw_export_data, common_metadata>>

\* Lines 101-102.
ReturnDocuments ==
    /\ UNCHANGED outsideNormalizer
    /\ norm_pc = "loop"
    /\ src_idx > Len(raw_export_data)
    /\ norm_pc' = "returned"
    /\ UNCHANGED <<raw_export_data, src_idx, hl_idx, common_metadata, llama_documents,
                   processed_highlight_ids, visited, emitted_at, construct_failed>>

\* processed_highlight_ids = set() (line 36): every call starts from an empty
\* seen set, whatever an earlier call collected.
LeftoverSeen(seen) == seen
FreshSeen(seen) == {}

\* process_highlights_to_documents is called again with the same argument,
\* after the first call returned or raised (lines 34-36 of the second call).
RunAgain ==
    /\ UNCHANGED <<pipeVars, fetchVars, ingestVars>>
    /\ run = 1
    /\ norm_pc \in {"returned", "raised"}
    /\ run' = 2
    /\ first_documents' = llama_documents
    /\ first_outcome' = norm_pc
    /\ first_failed' = construct_failed
    /\ llama_documents' = <<>>
    /\ processed_highlight_ids' = FreshSeen(processed_highlight_ids)
    /\ src_idx' = 1
    /\ hl_idx' = 0
    /\ common_metadata' = <<>>
    /\ norm_pc' = "loop"
    /\ visited' = 0
    /\ emitted_at' = <<>>
    /\ construct_failed' = {}
    /\ UNCHANGED raw_export_data

\* ------------------------------------------- the exports a run is given
\* All sequences over S of length at most n.
SeqsUpTo(S, n) == UNION {[1..k -> S] : k \in 0..n}

RECURSIVE SumSeq(_)
SumSeq(c) == IF c = <<>> THEN 0 ELSE Head(c) + SumSeq(Tail(c))

\* The ways to cut a list of n highlights into k consecutive sources.
Cuts(n, k) == {c \in [1..k -> 0..n] : SumSeq(c) = n}

\* The export whose source j holds the next c[j] highlights of flat.
CutExport(flat, c) ==
    [j \in 1..Len(c) |->
        [title |-> PyStr(<<"Book A">>),
         highlights |-> SubSeq(flat, SumSeq(SubSeq(c, 1, j - 1)) + 1,
                               SumSeq(SubSeq(c, 1, j)))]]

\* Highlights that differ in what deduplication reads: the id (absent, 0, 1,
\* "1") and the text (blank, non-blank, null).
DedupIds == {PyInt(<<"0">>), PyInt(<<"1">>), PyStr(<<"1">>)}
DedupTexts == {PyStr(<<" ">>), PyStr(<<"h", "i">>)}
DedupHighlights ==
    {[id |-> i, text |-> x] : i \in DedupIds, x \in DedupTexts}
        \cup {[text |-> x] : x \in DedupTexts}
        \cup {[id |-> PyInt(<<"1">>), text |-> None]}

\* The exports made of at most MaxHighlights such highlights, cut into at most
\* MaxSources sources.
IsDedupExport(export) ==
    \E flat \in SeqsUpTo(DedupHighlights, MaxHighlights) :
        \E k \in 0..MaxSources :
            \E c \in Cuts(Len(flat), k) : export = CutExport(flat, c)

\* One source with one highlight, differing in what the metadata reads.
OptionalValues == {None, PyStr(<<"v">>)}
TagLists == {None, PyList(<<>>), PyList(<<"a", "b">>)}
AttrSources ==
    {[title |-> PyStr(<<"T">>)], [book_tags |-> PyList(<<>>)]}
        \cup {[title |-> x, author |-> y, category |-> x, document_note |-> y, book_tags |-> g]
                : x \in OptionalValues, y \in OptionalValues, g \in TagLists}
AttrHighlights ==
    {[id |-> PyInt(<<"2">>), text |-> PyStr(<<" ", "x", "\n">>)]}
        \cup {[id |-> PyInt(<<"2">>), text |-> PyStr(<<"x">>), note |-> n, highlighted_at |-> a,
               url |-> b, updated_at |-> a, color |-> c, tags |-> g]
                : n \in {None, PyStr(<<>>), PyStr(<<"n">>)}, a \in OptionalValues,
                  b \in OptionalValues, c \in OptionalValues, g \in TagLists}
IsAttrExport(export) ==
    \E a \in AttrSources :
        \E h \in AttrHighlights : export = <<("highlights" :> <<h>>) @@ a>>

\* The state at the first call: no earlier run.
FirstRun ==
    /\ run = 1
    /\ first_documents = <<>>
    /\ first_outcome = "none"
    /\ first_failed = {}

\* Lines 34-36.
NormStart ==
    /\ src_idx = 1
    /\ hl_idx = 0
    /\ common_metadata = <<>>
    /\ llama_documents = <<>>
    /\ processed_highlight_ids = {}
    /\ norm_pc = "loop"
    /\ visited = 0
    /\ emitted_at = <<>>
    /\ construct_failed = {}

\* The highlights of the exports that are normalized twice.
RerunHighlights ==
    {[id |-> PyInt(<<"1">>), text |-> x] : x \in DedupTexts \cup {None}}
        \cup {[id |-> PyStr(<<"1">>), text |-> PyStr(<<"h", "i">>)],
              [text |-> PyStr(<<"h", "i">>)]}

IsRerunExport(export) ==
    \E flat \in SeqsUpTo(RerunHighlights, MaxHighlights) :
        \E k \in 0..MaxSources :
            \E c \in Cuts(Len(flat), k) : export = CutExport(flat, c)

\* Highlights that differ in the note (a note, "", null) and in whether they
\* are emitted (an id, no id).
NoteHighlights ==
    {[id |-> PyInt(<<"1">>), text |-> PyStr(<<"h", "i">>), note |-> PyStr(<<"n">>)],
     [id |-> PyInt(<<"2">>), text |-> PyStr(<<"h", "i">>), note |-> PyStr(<<>>)],
     [id |-> PyInt(<<"3">>), text |-> PyStr(<<"h", "i">>), note |-> None],
     [text |-> PyStr(<<"h", "i">>), note |-> PyStr(<<"n">>)]}

IsNoteExport(export) ==
    \E flat \in SeqsUpTo(NoteHighlights, MaxHighlights) :
        \E k \in 0..MaxSources :
            \E c \in Cuts(Len(flat), k) : export = CutExport(flat, c)

NormInit ==
    /\ \/ IsDedupExport(raw_export_data)
       \/ IsAttrExport(raw_export_data)
       \/ IsNoteExport(raw_export_data)
    /\ src_idx = 1
    /\ hl_idx = 0
    /\ common_metadata = <<>>
    /\ llama_documents = <<>>
    /\ processed_highlight_ids = {}
    /\ norm_pc = "loop"
    /\ visited = 0
    /\ emitted_at = <<>>
    /\ construct_failed = {}

\* ------------------------------------------------------ the pipeline
\* Most calls of setup_pipeline and query_knowledge_base in one process.
MaxCalls == 2

\* The callers: one is the interactive shell of main.py; two race in the
\* multi-caller deployment.
Callers == {"a", "b"}

DefaultTopK == 5
TopKs == {3, DefaultTopK}

\* _query_engine_global = None (line 27)
NoEngine == [id |-> 0, similarity_top_k |-> 0]

Apology == PyStr(<<"Sorry, I encountered an error while processing your query.">>)

QueryTexts == {PyStr(<<>>), PyStr(<<"q">>)}

\* What query_engine.query() may hand back: with or without a `response`
\* attribute, with or without `source_nodes`, a node's score a float or None.
NodeLists == {<<>>, <<[score |-> PyStr(<<"0.5">>)]>>, <<[score |-> None]>>}
Responses ==
    {[has_response |-> TRUE, response |-> PyStr(<<" ", "a", "\n">>), str |-> PyStr(<<"a">>),
      has_nodes |-> TRUE, source_nodes |-> n] : n \in NodeLists}
        \cup {[has_response |-> TRUE, response |-> None, str |-> PyStr(<<"s">>),
               has_nodes |-> FALSE, source_nodes |-> <<>>],
              [has_response |-> FALSE, response |-> None, str |-> PyStr(<<"s", " ">>),
               has_nodes |-> TRUE, source_nodes |-> <<>>]}

\* str(x)
PyStrOf(x) == IF x.t = "null" THEN PyStr(<<"None">>) ELSE PyStr(Format(x))

\* No response yet: query_engine.query() has not returned (line 84).
NoResponse ==
    [has_response |-> FALSE, response |-> None, str |-> PyStr(<<>>),
     has_nodes |-> FALSE, source_nodes |-> <<>>]

NoFrame ==
    [caller |-> "none", similarity_top_k |-> 0, query_text |-> PyStr(<<>>),
     query_engine |-> NoEngine, response |-> NoResponse, built |-> FALSE,
     failed |-> FALSE]

PipeInit ==
    /\ query_engine_global = NoEngine
    /\ Settings = [embed_model |-> [device |-> "unset", n |-> 0], llm |-> 0]
    /\ store \in {[dir |-> d, collection |-> c] : d \in BOOLEAN, c \in BOOLEAN} \ {[dir |-> FALSE, collection |-> TRUE]}
    /\ pc = [t \in Callers |-> "idle"]
    /\ frame = [t \in Callers |-> NoFrame]
    /\ calls = [embed |-> 0, llm |-> 0, store |-> 0, index |-> 0, engine |-> 0]
    /\ calls_started = 0
    /\ setup_log = <<>>
    /\ query_log = <<>>

\* A caller calls setup_pipeline(similarity_top_k) (line 29).
CallSetup(t, k) ==
    /\ UNCHANGED outsidePipeline
    /\ pc[t] = "idle"
    /\ calls_started < MaxCalls
    /\ calls_started' = calls_started + 1
    /\ pc' = [pc EXCEPT ![t] = "check"]
    /\ frame' = [frame EXCEPT ![t] = [NoFrame EXCEPT !.caller = "setup", !.similarity_top_k = k]]
    /\ UNCHANGED <<query_engine_global, Settings, store, calls, setup_log, query_log>>

\* A caller calls query_knowledge_base(query_text), which enters its try block
\* and calls setup_pipeline() with the default similarity_top_k (lines 70-82).
CallQuery(t, q) ==
    /\ UNCHANGED outsidePipeline
    /\ pc[t] = "idle"
    /\ calls_started < MaxCalls
    /\ calls_started' = calls_started + 1
    /\ pc' = [pc EXCEPT ![t] = "check"]
    /\ frame' = [frame EXCEPT ![t] = [NoFrame EXCEPT !.caller = "query", !.query_text = q,
                                                     !.similarity_top_k = DefaultTopK]]
    /\ UNCHANGED <<query_engine_global, Settings, store, calls, setup_log, query_log>>

\* setup_pipeline returns engine to its caller: to the caller of setup_pipeline,
\* or to line 82 of query_knowledge_base.
SetupReturns(t, engine) ==
    /\ setup_log' = Append(setup_log, [outcome |-> "returned", handle |-> engine,
                                       built |-> frame[t].built,
                                       cached |-> query_engine_global',
                                       caller |-> frame[t].caller,
                                       similarity_top_k |-> frame[t].similarity_top_k])
    /\ IF frame[t].caller = "setup"
       THEN /\ pc' = [pc EXCEPT ![t] = "idle"]
            /\ frame' = [frame EXCEPT ![t] = NoFrame]
       ELSE /\ pc' = [pc EXCEPT ![t] = "query"]
            /\ frame' = [frame EXCEPT ![t].query_engine = engine]

\* What a failed construction step leaves in _query_engine_global: lines 44-66
\* hold no handler and no assignment before line 66.
PoisonOnFailure(engine_global) == [id |-> -1, similarity_top_k |-> 0]
AfterSetupFailure(engine_global) == engine_global

\* A construction step raises: nothing in setup_pipeline catches it, so it
\* leaves setup_pipeline; the try of query_knowledge_base (line 112) catches it.
SetupRaises(t) ==
    /\ query_engine_global' = AfterSetupFailure(query_engine_global)
    /\ setup_log' = Append(setup_log, [outcome |-> "raised", handle |-> NoEngine,
                                       built |-> TRUE,
                                       cached |-> query_engine_global',
                                       caller |-> frame[t].caller,
                                       similarity_top_k |-> frame[t].similarity_top_k])
    /\ IF frame[t].caller = "setup"
       THEN /\ pc' = [pc EXCEPT ![t] = "idle"]
            /\ frame' = [frame EXCEPT ![t] = NoFrame]
       ELSE /\ pc' = [pc EXCEPT ![t] = "except"]
            /\ frame' = [frame EXCEPT ![t].failed = TRUE]

\* if _query_engine_global is not None (line 40)
AlwaysRebuild(engine_global) == FALSE
IsCached(engine_global) == engine_global # NoEngine

\* return _query_engine_global (line 42): the cached engine as it is, whatever
\* similarity_top_k this call was given.
RebindHandle(engine_global, similarity_top_k) ==
    [engine_global EXCEPT !.similarity_top_k = similarity_top_k]
CachedHandle(engine_global, similarity_top_k) == engine_global

\* Lines 39-44.
SetupCheck(t) ==
    /\ UNCHANGED outsidePipeline
    /\ pc[t] = "check"
    /\ IF IsCached(query_engine_global)
       THEN /\ UNCHANGED query_engine_global
            /\ SetupReturns(t, CachedHandle(query_engine_global,
                                            frame[t].similarity_top_k))
       ELSE /\ pc' = [pc EXCEPT ![t] = "embed"]
            /\ frame' = [frame EXCEPT ![t].built = TRUE]
            /\ UNCHANGED <<query_engine_global, setup_log>>
    /\ UNCHANGED <<Settings, store, calls, calls_started, query_log>>

\* Line 48 and get_embedding_model: the MPS device first, the CPU if that raises.
GetEmbeddingModel(t, mps_ok, cpu_ok) ==
    /\ UNCHANGED outsidePipeline
    /\ pc[t] = "embed"
    /\ calls' = [calls EXCEPT !.embed = @ + 1]
    /\ IF mps_ok \/ cpu_ok
       THEN /\ Settings' = [Settings EXCEPT !.embed_model =
                                [device |-> IF mps_ok THEN "mps" ELSE "cpu", n |-> calls.embed + 1]]
            /\ pc' = [pc EXCEPT ![t] = "llm"]
            /\ UNCHANGED <<query_engine_global, frame, setup_log>>
       ELSE SetupRaises(t) /\ UNCHANGED Settings
    /\ UNCHANGED <<store, calls_started, query_log>>

\* Line 50 and get_llm, which logs and re-raises.
GetLLM(t, ok) ==
    /\ UNCHANGED outsidePipeline
    /\ pc[t] = "llm"
    /\ calls' = [calls EXCEPT !.llm = @ + 1]
    /\ IF ok
       THEN /\ Settings' = [Settings EXCEPT !.llm = calls.llm + 1]
            /\ pc' = [pc EXCEPT ![t] = "store"]
            /\ UNCHANGED <<query_engine_global, frame, setup_log>>
       ELSE SetupRaises(t) /\ UNCHANGED Settings
    /\ UNCHANGED <<store, calls_started, query_log>>

\* Line 54 and get_vector_store: makedirs when the path is missing, then the
\* client, then get_or_create_collection; failed_at names the step that raises.
GetVectorStore(t, failed_at) ==
    /\ UNCHANGED outsidePipeline
    /\ pc[t] = "store"
    /\ calls' = [calls EXCEPT !.store = @ + 1]
    /\ store' = [dir |-> store.dir \/ failed_at # "makedirs",
                 collection |-> store.collection \/ failed_at = "none"]
    /\ failed_at = "makedirs" => ~store.dir
    /\ IF failed_at = "none"
       THEN /\ pc' = [pc EXCEPT ![t] = "index"]
            /\ UNCHANGED <<query_engine_global, frame, setup_log>>
       ELSE SetupRaises(t)
    /\ UNCHANGED <<Settings, calls_started, query_log>>

\* Line 58.
LoadIndex(t, ok) ==
    /\ UNCHANGED outsidePipeline
    /\ pc[t] = "index"
    /\ calls' = [calls EXCEPT !.index = @ + 1]
    /\ IF ok
       THEN /\ pc' = [pc EXCEPT ![t] = "engine"]
            /\ UNCHANGED <<query_engine_global, frame, setup_log>>
       ELSE SetupRaises(t)
    /\ UNCHANGED <<Settings, store, calls_started, query_log>>

\* Line 63: a new engine, bound to similarity_top_k.
CreateQueryEngine(t, ok) ==
    /\ UNCHANGED outsidePipeline
    /\ pc[t] = "engine"
    /\ calls' = [calls EXCEPT !.engine = @ + 1]
    /\ IF ok
       THEN /\ pc' = [pc EXCEPT ![t] = "cache"]
            /\ frame' = [frame EXCEPT ![t].query_engine =
                            [id |-> calls.engine + 1,
                             similarity_top_k |-> frame[t].similarity_top_k]]
            /\ UNCHANGED <<query_engine_global, setup_log>>
       ELSE SetupRaises(t)
    /\ UNCHANGED <<Settings, store, calls_started, query_log>>

\* Line 66.
CacheEngine(t) ==
    /\ UNCHANGED outsidePipeline
    /\ pc[t] = "cache"
    /\ query_engine_global' = frame[t].query_engine
    /\ pc' = [pc EXCEPT ![t] = "return"]
    /\ UNCHANGED <<Settings, store, frame, calls, calls_started, setup_log, query_log>>

\* Line 68.
SetupReturn(t) ==
    /\ UNCHANGED outsidePipeline
    /\ pc[t] = "return"
    /\ UNCHANGED <<query_engine_global, Settings, store, calls, calls_started, query_log>>
    /\ SetupReturns(t, query_engine_global)

\* query_knowledge_base ends, giving outcome to its caller; response is what
\* query_engine.query() had returned, if it had.
QueryEnds(t, outcome, response) ==
    /\ pc' = [pc EXCEPT ![t] = "idle"]
    /\ frame' = [frame EXCEPT ![t] = NoFrame]
    /\ query_log' = Append(query_log, [kind |-> outcome.kind, value |-> outcome.value,
                                       query_text |-> frame[t].query_text,
                                       failed |-> frame[t].failed,
                                       setup_failed |-> frame[t].query_engine = NoEngine,
                                       response |-> response])

\* An exception inside the try block goes to the handler of line 112.
QueryRaises(t, response) ==
    /\ pc' = [pc EXCEPT ![t] = "except"]
    /\ frame' = [frame EXCEPT ![t].failed = TRUE, ![t].response = response]
    /\ UNCHANGED query_log

\* f"{score:.4f}" (line 94) raises TypeError when the score is None.
ScoreFormats(node_with_score) == node_with_score.score # None

\* Lines 88-103: whether logging the source nodes returns (TRUE) or raises.
SourceNodesLogged(response) ==
    LET source_nodes == IF response.has_nodes THEN response.source_nodes ELSE <<>>
    IN  \A i \in 1..Len(source_nodes) : ScoreFormats(source_nodes[i])

\* str(getattr(response, 'response', str(response))).strip() (line 106)
ResponseText(response) ==
    IF response.has_response
    THEN PyStr(Strip(PyStrOf(response.response).v))
    ELSE PyStr(Strip(PyStrOf(response.str).v))

\* Lines 84-110: retrieval and synthesis (ok: query() returns response rather
\* than raising), the logging of the source nodes, the answer text.
RunQuery(t, response, ok) ==
    /\ UNCHANGED outsidePipeline
    /\ pc[t] = "query"
    /\ IF ok /\ SourceNodesLogged(response)
       THEN QueryEnds(t, [kind |-> "text", value |-> ResponseText(response)], response)
       ELSE QueryRaises(t, IF ok THEN response ELSE NoResponse)
    /\ UNCHANGED <<query_engine_global, Settings, store, calls, calls_started, setup_log>>

\* What the handler of lines 112-114 gives the caller.
Reraise == [kind |-> "raised", value |-> None]
ExceptOutcome == [kind |-> "text", value |-> Apology]

\* Lines 112-114.
HandleException(t) ==
    /\ UNCHANGED outsidePipeline
    /\ pc[t] = "except"
    /\ QueryEnds(t, ExceptOutcome, frame[t].response)
    /\ UNCHANGED <<query_engine_global, Settings, store, calls, calls_started, setup_log>>

VectorStoreFailures == {"none", "makedirs", "client", "collection"}

\* One step of caller t.
PipeNext(t) ==
    \/ \E k \in TopKs : CallSetup(t, k)
    \/ \E q \in QueryTexts : CallQuery(t, q)
    \/ SetupCheck(t)
    \/ \E mps_ok \in BOOLEAN, cpu_ok \in BOOLEAN : GetEmbeddingModel(t, mps_ok, cpu_ok)
    \/ \E ok \in BOOLEAN : GetLLM(t, ok)
    \/ \E failed_at \in VectorStoreFailures : GetVectorStore(t, failed_at)
    \/ \E ok \in BOOLEAN : LoadIndex(t, ok)
    \/ \E ok \in BOOLEAN : CreateQueryEngine(t, ok)
    \/ CacheEngine(t)
    \/ SetupReturn(t)
    \/ \E response \in Responses, ok \in BOOLEAN : RunQuery(t, response, ok)
    \/ HandleException(t)

\* ------------------------------------------------ fetch_all_highlights
\* Most pages in the server's export.
MaxPages == 2
\* Most rate-limit responses the server gives in one run.
MaxRetries == 2

\* The cursor that names page p.
Cursor(p) == PyStr(<<ToString(p)>>)

\* The page the server answers with: the first when the request carries no
\* pageCursor (lines 41-46), otherwise the one the cursor names.
PageOf(cursor) ==
    IF ~Truthy(cursor) THEN 1
    ELSE CHOOSE p \in 1..Len(pages) : Cursor(p) = cursor

DigitValue ==
    ("0" :> 0) @@ ("1" :> 1) @@ ("2" :> 2) @@ ("3" :> 3) @@ ("4" :> 4) @@
    ("5" :> 5) @@ ("6" :> 6) @@ ("7" :> 7) @@ ("8" :> 8) @@ ("9" :> 9)

IsDigits(s) == s # <<>> /\ \A i \in 1..Len(s) : s[i] \in DOMAIN DigitValue

RECURSIVE DecimalValue(_)
DecimalValue(s) ==
    IF s = <<>> THEN 0
    ELSE DecimalValue(SubSeq(s, 1, Len(s) - 1)) * 10 + DigitValue[s[Len(s)]]

\* int(x) of a str: whether it returns, and what.
IntParses(s) ==
    \/ IsDigits(s)
    \/ s # <<>> /\ Head(s) \in {"-", "+"} /\ IsDigits(Tail(s))
IntOf(s) ==
    IF Head(s) = "-" THEN 0 - DecimalValue(Tail(s))
    ELSE IF Head(s) = "+" THEN DecimalValue(Tail(s))
    ELSE DecimalValue(s)

\* The wait when the response has no Retry-After header (line 53).
DefaultRetryAfter == 60

\* int(response.headers.get("Retry-After", 60)) (line 53): the number of
\* seconds, or a ValueError raised when the header is not an integer.
IgnoreRetryAfter(headers) == [raised |-> FALSE, value |-> DefaultRetryAfter]
RetryAfter(headers) ==
    IF "Retry-After" \notin DOMAIN headers
    THEN [raised |-> FALSE, value |-> DefaultRetryAfter]
    ELSE IF IntParses(headers["Retry-After"])
    THEN [raised |-> FALSE, value |-> IntOf(headers["Retry-After"])]
    ELSE [raised |-> TRUE, value |-> 0]

\* What the function is left with when a request fails (lines 77-86).
DiscardOnFailure(data) == <<>>
KeepOnFailure(data) == data

\* The answers that end the loop through an except clause: requests.get
\* raises, raise_for_status raises, response.json() raises.
FailureKinds == {"network_error", "http_error", "bad_body"}

\* The Retry-After headers of a 429: none, seconds, an HTTP-date, a negative.
RetryHeaders ==
    {<<>>,
     [h \in {"Retry-After"} |-> <<"5">>],
     [h \in {"Retry-After"} |-> <<"Wed, 21 Oct 2015 07:28:00 GMT">>],
     [h \in {"Retry-After"} |-> <<"-", "1">>]}

Answers ==
    {[kind |-> k, headers |-> <<>>] : k \in FailureKinds \cup {"ok"}}
        \cup {[kind |-> "rate_limited", headers |-> h] : h \in RetryHeaders}

RateLimitedSoFar ==
    Cardinality({i \in 1..Len(requests_made) : requests_made[i].answer = "rate_limited"})

\* if not next_page_cursor: break (lines 73-75)
NeverLastPage(cursor) == FALSE
IsLastPage(cursor) == ~Truthy(cursor)

\* The most requests the server lets a run make: one for each page and one for
\* each rate-limit response.  The loop itself counts nothing.
MaxRequests == MaxPages + MaxRetries

\* The loop ends and the function returns data (lines 85-86).
FetchReturns(data) ==
    /\ fetch_pc' = "returned"
    /\ full_data' = data

\* One pass of `while True` (lines 38-83), and the return when it breaks.
Request(answer) ==
    /\ UNCHANGED outsideFetch
    /\ fetch_pc = "loop"
    /\ Len(requests_made) < MaxRequests
    /\ answer.kind = "rate_limited" => RateLimitedSoFar < MaxRetries
    /\ requests_made' = Append(requests_made, [page_cursor |-> next_page_cursor,
                                               answer |-> answer.kind,
                                               headers |-> answer.headers])
    /\ UNCHANGED pages
    /\ IF answer.kind = "rate_limited"
       THEN \* lines 52-56
            LET retry_after == RetryAfter(answer.headers)
            IN  IF retry_after.raised \/ retry_after.value < 0
                THEN \* int() or time.sleep() raises ValueError: lines 81-83
                     /\ FetchReturns(KeepOnFailure(full_data))
                     /\ UNCHANGED <<next_page_cursor, slept>>
                ELSE /\ slept' = Append(slept, retry_after.value)
                     /\ UNCHANGED <<full_data, next_page_cursor, fetch_pc>>
       ELSE IF answer.kind \in FailureKinds
       THEN \* lines 77-83
            /\ FetchReturns(KeepOnFailure(full_data))
            /\ UNCHANGED <<next_page_cursor, slept>>
       ELSE \* lines 62-75
            LET data == pages[PageOf(next_page_cursor)]
                results == Get(data, "results", PyList(<<>>))
                extended == IF Truthy(results) THEN full_data \o results.v ELSE full_data
            IN  /\ next_page_cursor' = Get(data, "nextPageCursor", None)
                /\ IF IsLastPage(next_page_cursor')
                   THEN FetchReturns(extended)
                   ELSE full_data' = extended /\ UNCHANGED fetch_pc
                /\ UNCHANGED slept

\* A source, as the export endpoint gives it.
Source(b) ==
    [title |-> PyStr(<<"Book ", b>>),
     highlights |-> <<[id |-> PyInt(<<b>>), text |-> PyStr(<<"h", "i">>)]>>]

\* The lists of sources a page may hold.
FetchResults == {<<>>, <<Source("1")>>, <<Source("2"), Source("1")>>}

\* The results of one page: the key missing, null, or a list of sources.
PageResults(lists) ==
    {<<>>} \cup {("results" :> r) : r \in {None} \cup {PyList(x) : x \in lists}}

\* How the last page says that it is the last: no nextPageCursor, null, "".
LastCursors ==
    {<<>>} \cup {("nextPageCursor" :> c) : c \in {None, PyStr(<<>>)}}

\* The exports of at most MaxPages pages: every page but the last carries the
\* cursor of the next.
IsPageChain(ps, lists, lasts) ==
    \E n \in 1..MaxPages :
        \E rs \in [1..n -> PageResults(lists)] :
            \E last \in lasts :
                ps = [p \in 1..n |->
                        IF p < n THEN rs[p] @@ ("nextPageCursor" :> Cursor(p + 1))
                        ELSE rs[p] @@ last]

\* fetch_all_highlights has not been called.
FetchIdle ==
    /\ pages = <<>>
    /\ full_data = <<>>
    /\ next_page_cursor = None
    /\ fetch_pc = "idle"
    /\ requests_made = <<>>
    /\ slept = <<>>

\* Lines 32-36.
FetchStart ==
    /\ full_data = <<>>
    /\ next_page_cursor = None
    /\ fetch_pc = "loop"
    /\ requests_made = <<>>
    /\ slept = <<>>

FetchNext == \E answer \in Answers : Request(answer)

\* ------------------------------------------- the __main__ block of ingest.py
\* if not token (readwise_client.py, line 21)
TokenUnset(token) == token = None
TokenMissing(token) == ~Truthy(token)

\* What the handlers of lines 136-139 log for an exception of class error.
ReportOf(error) ==
    IF error = "ValueError" THEN "configuration error" ELSE "unexpected error"

\* The classes of the exceptions the embedding model and the store may raise.
ErrorClasses == {"ValueError", "Exception"}

\* The __main__ block ends with report.
IngestEnds(report) ==
    /\ ingest_pc' = "done"
    /\ ingest_report' = report

\* Lines 107-111: get_readwise_token(), then the call of fetch_all_highlights.
IngestGetToken ==
    /\ UNCHANGED <<normVars, pipeVars, rerunVars>>
    /\ ingest_pc = "start"
    /\ token_reads' = token_reads + 1
    /\ IF TokenMissing(env_token)
       THEN \* ValueError("Missing Readwise API Key"), caught at line 136
            /\ IngestEnds(ReportOf("ValueError"))
            /\ UNCHANGED fetchVars
       ELSE /\ ingest_pc' = "fetch"
            /\ fetch_pc' = "loop"
            /\ full_data' = <<>>
            /\ next_page_cursor' = None
            /\ UNCHANGED <<ingest_report, pages, requests_made, slept>>
    /\ UNCHANGED <<env_token, embed_model, stored_ids>>

\* Lines 111-116 and 133-134: fetch_all_highlights returned raw_data.
IngestProcess ==
    /\ UNCHANGED <<pipeVars, rerunVars, fetchVars>>
    /\ ingest_pc = "fetch"
    /\ fetch_pc = "returned"
    /\ IF full_data # <<>>
       THEN /\ ingest_pc' = "process"
            /\ raw_export_data' = full_data
            /\ src_idx' = 1
            /\ hl_idx' = 0
            /\ common_metadata' = <<>>
            /\ llama_documents' = <<>>
            /\ processed_highlight_ids' = FreshSeen(processed_highlight_ids)
            /\ norm_pc' = "loop"
            /\ UNCHANGED <<ingest_report, visited, emitted_at, construct_failed>>
       ELSE /\ IngestEnds("no raw data")
            /\ UNCHANGED normVars
    /\ UNCHANGED <<env_token, embed_model, stored_ids, token_reads>>

\* Lines 116-120 and 131-132: process_highlights_to_documents returned
\* processed_documents, or raised.
IngestStore ==
    /\ UNCHANGED <<normVars, pipeVars, rerunVars, fetchVars>>
    /\ ingest_pc = "process"
    /\ norm_pc \in {"returned", "raised"}
    /\ IF norm_pc = "raised"
       THEN IngestEnds(ReportOf("Exception"))
       ELSE IF llama_documents # <<>>
       THEN ingest_pc' = "embed" /\ UNCHANGED ingest_report
       ELSE IngestEnds("no documents")
    /\ UNCHANGED <<env_token, embed_model, stored_ids, token_reads>>

\* Line 122 and get_embedding_model.
IngestGetEmbeddingModel(mps_ok, cpu_ok, error) ==
    /\ UNCHANGED <<normVars, rerunVars, fetchVars>>
    /\ ingest_pc = "embed"
    /\ calls' = [calls EXCEPT !.embed = @ + 1]
    /\ IF mps_ok \/ cpu_ok
       THEN /\ embed_model' = [device |-> IF mps_ok THEN "mps" ELSE "cpu",
                               n |-> calls.embed + 1]
            /\ ingest_pc' = "store"
            /\ UNCHANGED ingest_report
       ELSE IngestEnds(ReportOf(error)) /\ UNCHANGED embed_model
    /\ UNCHANGED <<query_engine_global, Settings, store, pc, frame, calls_started,
                   setup_log, query_log>>
    /\ UNCHANGED <<env_token, stored_ids, token_reads>>

\* Line 124 and get_vector_store.
IngestGetVectorStore(failed_at, error) ==
    /\ UNCHANGED <<normVars, rerunVars, fetchVars>>
    /\ ingest_pc = "store"
    /\ calls' = [calls EXCEPT !.store = @ + 1]
    /\ store' = [dir |-> store.dir \/ failed_at # "makedirs",
                 collection |-> store.collection \/ failed_at = "none"]
    /\ failed_at = "makedirs" => ~store.dir
    /\ IF failed_at = "none"
       THEN ingest_pc' = "add" /\ UNCHANGED ingest_report
       ELSE IngestEnds(ReportOf(error))
    /\ UNCHANGED <<query_engine_global, Settings, pc, frame, calls_started,
                   setup_log, query_log>>
    /\ UNCHANGED <<env_token, embed_model, stored_ids, token_reads>>

\* Line 128 and add_documents_to_store: Settings.embed_model is set, then
\* from_documents stores the documents; when it raises after `written` of them
\* the exception is logged and raised again.
IngestAddDocuments(written, error) ==
    /\ UNCHANGED <<normVars, rerunVars, fetchVars>>
    /\ ingest_pc = "add"
    /\ written \in 0..Len(llama_documents)
    /\ Settings' = [Settings EXCEPT !.embed_model = embed_model]
    /\ stored_ids' = stored_ids \cup {llama_documents[i].id_ : i \in 1..written}
    /\ IF error = "none"
       THEN written = Len(llama_documents) /\ IngestEnds("completed")
       ELSE IngestEnds(ReportOf(error))
    /\ UNCHANGED <<query_engine_global, store, pc, frame, calls, calls_started,
                   setup_log, query_log>>
    /\ UNCHANGED <<env_token, embed_model, token_reads>>

\* The __main__ block of ingest.py has not been run: the process is the shell.
IngestIdle ==
    /\ env_token = None
    /\ ingest_pc = "idle"
    /\ ingest_report = "none"
    /\ embed_model = [device |-> "unset", n |-> 0]
    /\ stored_ids = {}
    /\ token_reads = 0

\* process_highlights_to_documents has not been called.
NormIdle ==
    /\ raw_export_data = <<>>
    /\ src_idx = 1
    /\ hl_idx = 0
    /\ common_metadata = <<>>
    /\ llama_documents = <<>>
    /\ processed_highlight_ids = {}
    /\ norm_pc = "idle"
    /\ visited = 0
    /\ emitted_at = <<>>
    /\ construct_failed = {}

\* The interactive shell of main.py: one caller, one call at a time.
Init == PipeInit /\ NormIdle /\ FirstRun /\ FetchIdle /\ IngestIdle
Next == PipeNext("a")
Spec == Init /\ [][Next]_vars

\* Several callers, their steps interleaved.
ConcNext == \E t \in Callers : PipeNext(t)
SpecConc == Init /\ [][ConcNext]_vars

\* One run of process_highlights_to_documents.
NormNext ==
    \/ EnterSource
    \/ \E document_ok \in BOOLEAN : ProcessHighlight(document_ok)
    \/ ReturnDocuments

NormRunInit == NormInit /\ PipeInit /\ ~store.dir /\ FirstRun /\ FetchIdle /\ IngestIdle
SpecNorm == NormRunInit /\ [][NormNext]_vars

\* Two runs of process_highlights_to_documents on the same export.
RerunNext ==
    \/ EnterSource
    \/ \E document_ok \in BOOLEAN : ProcessHighlight(document_ok)
    \/ ReturnDocuments
    \/ RunAgain

RerunInit ==
    /\ IsRerunExport(raw_export_data) \/ IsAttrExport(raw_export_data)
    /\ NormStart
    /\ PipeInit /\ ~store.dir
    /\ FirstRun
    /\ FetchIdle
    /\ IngestIdle
SpecRerun == RerunInit /\ [][RerunNext]_vars

\* One run of fetch_all_highlights.
FetchInit ==
    /\ IsPageChain(pages, FetchResults, LastCursors)
    /\ FetchStart
    /\ PipeInit /\ ~store.dir
    /\ NormIdle
    /\ FirstRun
    /\ IngestIdle
SpecFetch == FetchInit /\ [][FetchNext]_vars

\* A run in which the loop goes on: every requests.get() returns a response or
\* raises, and every time.sleep() returns.
SpecFetchLive == FetchInit /\ [][FetchNext]_vars /\ WF_vars(FetchNext)

\* The values of READWISE_API_KEY: unset, empty, a token.
Tokens == {None, PyStr(<<>>), PyStr(<<"k">>)}

\* The sources of the server's export when ingest.py is run: one with a
\* highlight, one whose highlight is blank, one whose highlight has a null text.
IngestResults ==
    {<<Source("1")>>,
     <<[title |-> PyStr(<<"Book B">>),
        highlights |-> <<[id |-> PyInt(<<"2">>), text |-> PyStr(<<" ">>)]>>]>>,
     <<[title |-> PyStr(<<"Book C">>),
        highlights |-> <<[id |-> PyInt(<<"3">>), text |-> None]>>]>>}

IngestAnswers ==
    {[kind |-> k, headers |-> <<>>] : k \in {"ok", "rate_limited", "network_error"}}

\* A process runs the __main__ block of ingest.py.
IngestStart ==
    /\ env_token \in Tokens
    /\ ingest_pc = "start"
    /\ ingest_report = "none"
    /\ embed_model = [device |-> "unset", n |-> 0]
    /\ stored_ids = {}
    /\ token_reads = 0
    /\ IsPageChain(pages, IngestResults, {<<>>})
    /\ full_data = <<>>
    /\ next_page_cursor = None
    /\ fetch_pc = "idle"
    /\ requests_made = <<>>
    /\ slept = <<>>
    /\ query_engine_global = NoEngine
    /\ Settings = [embed_model |-> [device |-> "unset", n |-> 0], llm |-> 0]
    /\ store = [dir |-> FALSE, collection |-> FALSE]
    /\ pc = [t \in Callers |-> "none"]
    /\ frame = [t \in Callers |-> NoFrame]
    /\ calls = [embed |-> 0, llm |-> 0, store |-> 0, index |-> 0, engine |-> 0]
    /\ calls_started = 0
    /\ setup_log = <<>>
    /\ query_log = <<>>

\* A process is either a run of ingest.py or the shell of main.py, the shell
\* without READWISE_API_KEY and without a store.
ProcessInit ==
    /\ NormIdle
    /\ FirstRun
    /\ \/ IngestStart
       \/ PipeInit /\ ~store.dir /\ FetchIdle /\ IngestIdle

ProcessNext ==
    \/ IngestGetToken
    \/ \E answer \in IngestAnswers : Request(answer)
    \/ IngestProcess
    \/ EnterSource
    \/ \E document_ok \in BOOLEAN : ProcessHighlight(document_ok)
    \/ ReturnDocuments
    \/ IngestStore
    \/ \E mps_ok \in BOOLEAN, cpu_ok \in BOOLEAN, error \in ErrorClasses :
          IngestGetEmbeddingModel(mps_ok, cpu_ok, error)
    \/ \E failed_at \in VectorStoreFailures, error \in ErrorClasses :
          IngestGetVectorStore(failed_at, error)
    \/ \E written \in 0..MaxPages, error \in ErrorClasses \cup {"none"} :
          IngestAddDocuments(written, error)
    \/ PipeNext("a")

SpecIngest == ProcessInit /\ [][ProcessNext]_vars

RECURSIVE Flatten(_)
Flatten(export) ==
    IF export = <<>> THEN <<>>
    ELSE Highlights(Head(export)) \o Flatten(Tail(export))

\* ------------------------------------------------- claims: the pipeline
ConstructionPcs == {"embed", "llm", "store", "index", "engine", "cache", "return"}

\* C1: query_knowledge_base never propagates an exception: every call, whatever
\* the question, ends by returning a string, and a call in which setup,
\* retrieval, synthesis or the logging failed returns the apology.
C1_QueryReturnsString ==
    \A i \in 1..Len(query_log) :
        /\ query_log[i].kind = "text"
        /\ query_log[i].failed => query_log[i].value = Apology

\* A query with the empty question failed and gave the apology; another call
\* returned an answer.
C1_Witness ==
    /\ \E i \in 1..Len(query_log) :
          /\ query_log[i].failed
          /\ query_log[i].query_text = PyStr(<<>>)
          /\ query_log[i].value = Apology
    /\ \E i \in 1..Len(query_log) : ~query_log[i].failed

\* C2: when the first of N sequential setup_pipeline calls succeeds, every
\* construction step has run exactly once and every call has returned the
\* handle the first call returned.
C2_SetupOnce ==
    (setup_log # <<>> /\ setup_log[1].outcome = "returned") =>
        /\ calls = [embed |-> 1, llm |-> 1, store |-> 1, index |-> 1, engine |-> 1]
        /\ \A i \in 1..Len(setup_log) :
              /\ setup_log[i].outcome = "returned"
              /\ setup_log[i].handle = setup_log[1].handle
              /\ setup_log[i].handle # NoEngine

\* MaxCalls calls of setup_pipeline have returned, the first having built.
C2_Witness ==
    /\ Len(setup_log) = MaxCalls
    /\ setup_log[1].outcome = "returned"
    /\ setup_log[1].built
    /\ ~setup_log[2].built

\* C3: a setup_pipeline call in which a construction step failed ends by
\* raising and leaves the cached handle unset; the next call runs the
\* construction again and, when it succeeds, caches the handle it returns.
C3_FailedSetupRetries ==
    /\ \A i \in 1..Len(setup_log) :
          setup_log[i].outcome = "raised" =>
              /\ setup_log[i].cached = NoEngine
              /\ i < Len(setup_log) =>
                    /\ setup_log[i + 1].built
                    /\ setup_log[i + 1].outcome = "returned" =>
                          /\ setup_log[i + 1].handle # NoEngine
                          /\ setup_log[i + 1].cached = setup_log[i + 1].handle
    /\ (/\ setup_log # <<>>
        /\ setup_log[Len(setup_log)].outcome = "raised"
        /\ pc["a"] # "return") => query_engine_global = NoEngine

\* The first call raised, the second built and cached its handle.
C3_Witness ==
    /\ Len(setup_log) >= 2
    /\ setup_log[1].outcome = "raised"
    /\ setup_log[2].outcome = "returned"
    /\ query_engine_global = setup_log[2].handle
    /\ query_engine_global # NoEngine

\* C8: with several callers racing while no handle is cached, only one
\* initialization executes and all callers obtain the same handle.
C8_SingleInitialization ==
    /\ Cardinality({t \in Callers : pc[t] \in ConstructionPcs}) <= 1
    /\ \A i, j \in 1..Len(setup_log) :
          (setup_log[i].outcome = "returned" /\ setup_log[j].outcome = "returned")
              => setup_log[i].handle = setup_log[j].handle

\* C9: once a handle is cached it is never cleared and never replaced.
C9_ReadyIsTerminal ==
    [][query_engine_global # NoEngine => query_engine_global' = query_engine_global]_vars

\* C11 as stated: when the setup_pipeline call made by query_knowledge_base
\* raises, the call of query_knowledge_base ends by raising the setup error,
\* not by returning the apology, and the cached handle stays unset.
C11_SetupFailurePropagates ==
    /\ \A i \in 1..Len(query_log) :
          query_log[i].setup_failed => query_log[i].kind = "raised"
    /\ \A i \in 1..Len(setup_log) :
          (setup_log[i].caller = "query" /\ setup_log[i].outcome = "raised")
              => setup_log[i].cached = NoEngine

\* C11, amended: when the setup_pipeline call made by query_knowledge_base
\* raises, the handler of query_knowledge_base absorbs the failure and the
\* caller is given the apology; the cached handle stays unset, and the next
\* call runs the construction again.
C11_SetupFailureAbsorbed ==
    /\ \A i \in 1..Len(query_log) :
          query_log[i].setup_failed =>
              /\ query_log[i].kind = "text"
              /\ query_log[i].value = Apology
    /\ \A i \in 1..Len(setup_log) :
          (setup_log[i].caller = "query" /\ setup_log[i].outcome = "raised") =>
              /\ setup_log[i].cached = NoEngine
              /\ i < Len(setup_log) => setup_log[i + 1].built

\* A query whose setup raised was given the apology; the next query built the
\* engine and was given an answer.
C11_Witness ==
    /\ Len(query_log) >= 2
    /\ query_log[1].setup_failed
    /\ query_log[1].value = Apology
    /\ ~query_log[2].failed
    /\ Len(setup_log) >= 2
    /\ setup_log[1].caller = "query" /\ setup_log[1].outcome = "raised"
    /\ setup_log[2].caller = "query" /\ setup_log[2].built
    /\ setup_log[2].outcome = "returned"

\* C12: a setup_pipeline call that finds a handle cached runs no construction
\* step, leaves the handle and the settings as they are and returns the cached
\* handle, whatever similarity_top_k it was given; a handle is cached with the
\* similarity_top_k of the call that built it, the default when that call came
\* from query_knowledge_base, and is not replaced afterwards.
C12_CachedSetupIsNoOp ==
    [][/\ (pc["a"] = "check" /\ query_engine_global # NoEngine) =>
              /\ calls' = calls
              /\ Settings' = Settings
              /\ query_engine_global' = query_engine_global
              /\ Len(setup_log') = Len(setup_log) + 1
              /\ setup_log'[Len(setup_log')].outcome = "returned"
              /\ setup_log'[Len(setup_log')].handle = query_engine_global
       /\ (query_engine_global = NoEngine /\ query_engine_global' # NoEngine) =>
              /\ query_engine_global'.similarity_top_k = frame["a"].similarity_top_k
              /\ frame["a"].caller = "query" =>
                    query_engine_global'.similarity_top_k = DefaultTopK
       /\ query_engine_global # NoEngine =>
              query_engine_global' = query_engine_global]_vars

\* A query built the engine with the default breadth; a later
\* setup_pipeline(similarity_top_k=3) returned that engine, its breadth still
\* the default.
C12_Witness ==
    /\ Len(setup_log) >= 2
    /\ setup_log[1].caller = "query"
    /\ setup_log[1].outcome = "returned" /\ setup_log[1].built
    /\ setup_log[2].caller = "setup"
    /\ setup_log[2].similarity_top_k = 3
    /\ ~setup_log[2].built
    /\ setup_log[2].handle = setup_log[1].handle
    /\ setup_log[2].handle.similarity_top_k = DefaultTopK
    /\ query_engine_global = setup_log[1].handle

\* C13: setup_pipeline only loads the persisted store: no step of the query
\* path creates the store directory or the collection, so the store is after
\* every step what it was before.
C13_SetupLeavesStoreUnchanged == [][store' = store]_vars

\* C17: a call in which query_engine.query() returned ends by returning the
\* stripped answer text of that response (its response attribute, or its
\* string form when it has none), whatever source nodes the response carries:
\* logging the source nodes does not change what is returned.
C17_AnswerWhateverTheNodes ==
    \A i \in 1..Len(query_log) :
        query_log[i].response # NoResponse =>
            /\ query_log[i].kind = "text"
            /\ query_log[i].value = ResponseText(query_log[i].response)

\* The construction step that comes before each position of setup_pipeline.
StepBefore ==
    [embed |-> "check", llm |-> "embed", store |-> "llm", index |-> "store",
     engine |-> "index", cache |-> "engine", return |-> "cache"]

\* Every component a cached handle rests on has been constructed.
ConstructionComplete ==
    /\ Settings.embed_model.n >= 1
    /\ Settings.llm >= 1
    /\ store.dir /\ store.collection
    /\ \A step \in DOMAIN calls : calls[step] >= 1

\* C19: setup_pipeline takes its steps in the order embedding model, language
\* model, vector store, index, query engine, each step entered only from the
\* one before it and having run its constructor; the handle changes only at
\* the step after the query engine was built, to that engine with the call's
\* similarity_top_k; whenever a handle is cached every component has been
\* constructed, and a call that returns returns such a handle.
C19_ConstructionOrder ==
    [][/\ pc'["a"] # pc["a"] /\ pc'["a"] \in DOMAIN StepBefore =>
              pc["a"] = StepBefore[pc'["a"]]
       /\ pc'["a"] = "llm" /\ pc["a"] = "embed" =>
              calls'.embed = calls.embed + 1 /\ Settings'.embed_model.n = calls'.embed
       /\ pc'["a"] = "store" /\ pc["a"] = "llm" =>
              calls'.llm = calls.llm + 1 /\ Settings'.llm = calls'.llm
       /\ pc'["a"] = "index" /\ pc["a"] = "store" =>
              calls'.store = calls.store + 1 /\ store'.dir /\ store'.collection
       /\ pc'["a"] = "engine" /\ pc["a"] = "index" => calls'.index = calls.index + 1
       /\ pc'["a"] = "cache" /\ pc["a"] = "engine" =>
              /\ calls'.engine = calls.engine + 1
              /\ frame'["a"].query_engine.similarity_top_k = frame["a"].similarity_top_k
       /\ query_engine_global' # query_engine_global =>
              /\ pc["a"] = "cache"
              /\ query_engine_global' = frame["a"].query_engine
              /\ query_engine_global' # NoEngine
       /\ query_engine_global' # NoEngine => ConstructionComplete'
       /\ (/\ Len(setup_log') > Len(setup_log)
           /\ setup_log'[Len(setup_log')].outcome = "returned") =>
              /\ setup_log'[Len(setup_log')].handle = query_engine_global'
              /\ query_engine_global' # NoEngine]_vars

\* A first call raised after the embedding model and the language model were
\* set, leaving no handle; a second call, given similarity_top_k 3, built every
\* component and cached an engine bound to 3.
C19_Witness ==
    /\ Len(setup_log) = 2
    /\ setup_log[1].outcome = "raised" /\ setup_log[1].cached = NoEngine
    /\ setup_log[2].outcome = "returned" /\ setup_log[2].built
    /\ setup_log[2].similarity_top_k = 3
    /\ query_engine_global = setup_log[2].handle
    /\ query_engine_global.similarity_top_k = 3
    /\ calls.embed = 2 /\ calls.llm = 2 /\ calls.engine = 1
    /\ ConstructionComplete

\* The shared settings of a process in which no setup_pipeline call has run.
SettingsAtStart == [embed_model |-> [device |-> "unset", n |-> 0], llm |-> 0]

\* Every setup_pipeline call made so far has raised, and none is under way.
OnlyFailedSetups ==
    /\ setup_log # <<>>
    /\ \A i \in 1..Len(setup_log) : setup_log[i].outcome = "raised"
    /\ pc["a"] \notin ConstructionPcs

\* C22: a failed setup_pipeline attempt leaves the shared settings as they were
\* before the call: while every attempt so far has failed, the embedding model
\* and the language-model client of the settings are those of the start of the
\* process, whichever construction step failed.
C22_FailedSetupLeavesNoState == OnlyFailedSetups => Settings = SettingsAtStart

\* ---------------------------------------------- claims: the normalizer
Flat == Flatten(raw_export_data)
IdAt(i) == Get(Flat[i], "id", None)
HasId(i) == Truthy(IdAt(i))
TextAt(i) == Get(Flat[i], "text", PyStr(<<>>))
NonBlank(i) == TextAt(i).t = "str" /\ Strip(TextAt(i).v) # <<>>
DocumentCount == Len(llama_documents)
HighlightIdOf(document) == document.metadata["highlight_id"]

\* C4 as stated: an occurrence of an id that comes after another occurrence of
\* the same id is never emitted.
C4_LaterOccurrenceNeverEmitted ==
    \A n \in 1..DocumentCount :
        \A i \in 1..(emitted_at[n].at - 1) : IdAt(i) # HighlightIdOf(llama_documents[n])

\* C4, amended: an occurrence of an id is never emitted once an earlier
\* occurrence of that id was emitted or dropped for empty or whitespace-only
\* text; the only earlier occurrences an emitted one may have are those whose
\* Document() raised, which are not marked as processed.
C4_SeenOccurrenceWins ==
    \A n \in 1..DocumentCount :
        \A i \in 1..(emitted_at[n].at - 1) :
            IdAt(i) = HighlightIdOf(llama_documents[n]) => i \in construct_failed

\* A run returned nothing for an id whose first occurrence was blank and whose
\* later occurrence had text.
C4_Witness ==
    /\ norm_pc = "returned"
    /\ \E i, j \in 1..Len(Flat) :
          /\ i < j
          /\ HasId(i)
          /\ IdAt(i) = IdAt(j)
          /\ ~NonBlank(i)
          /\ NonBlank(j)
          /\ \A n \in 1..DocumentCount : HighlightIdOf(llama_documents[n]) # IdAt(j)

\* The ids that occur on a highlight with a non-empty id and non-blank text.
IdsWithText == {IdAt(i) : i \in {x \in 1..Len(Flat) : HasId(x) /\ NonBlank(x)}}

\* The ids whose first occurrence, not counting the occurrences whose
\* Document() raised, has non-blank text.
AdmittedIds ==
    {IdAt(i) : i \in {x \in 1..Len(Flat) :
        /\ HasId(x)
        /\ NonBlank(x)
        /\ x \notin construct_failed
        /\ \A j \in 1..(x - 1) : IdAt(j) = IdAt(x) => j \in construct_failed}}

\* C5 as stated (already where no Document() raises): the number of records
\* returned is the number of distinct ids that occur with non-blank text.
C5_CountsIdsWithText ==
    (norm_pc = "returned" /\ construct_failed = {}) =>
        DocumentCount = Cardinality(IdsWithText)

\* C5, amended: the number of records returned is the number of distinct
\* non-empty ids whose first occurrence, not counting occurrences whose record
\* construction raised, has non-blank text; an id in several sources counts once.
C5_CountsAdmittedIds ==
    norm_pc = "returned" => DocumentCount = Cardinality(AdmittedIds)

\* A run over two sources returned one record for an id that has text in both.
C5_Witness ==
    /\ norm_pc = "returned"
    /\ Len(raw_export_data) = 2
    /\ Len(Highlights(raw_export_data[1])) = 1
    /\ Len(Flat) >= 2
    /\ HasId(1) /\ IdAt(1) = IdAt(2)
    /\ NonBlank(1) /\ NonBlank(2)
    /\ construct_failed = {}
    /\ DocumentCount = 1

\* C6: at every point of a run no two accumulated records have the same
\* highlight_id.
C6_OneRecordPerId ==
    \A m, n \in 1..DocumentCount :
        m # n => HighlightIdOf(llama_documents[m]) # HighlightIdOf(llama_documents[n])

\* Two highlights with the same id and text: the run returned the first alone.
C6_Witness ==
    /\ norm_pc = "returned"
    /\ Len(Flat) >= 2
    /\ HasId(1) /\ IdAt(1) = IdAt(2)
    /\ NonBlank(1) /\ NonBlank(2)
    /\ DocumentCount = 1
    /\ emitted_at[1].at = 1
    /\ llama_documents[1].text = TextAt(1)

\* The highlight-level metadata keys and the raw keys they are read from.
HighlightKeys ==
    [highlighted_at |-> "highlighted_at", highlight_url |-> "url",
     updated_at |-> "updated_at", color |-> "color"]

\* C7: no record's metadata holds a None; a source-level or highlight-level
\* field is a key of the metadata exactly when the raw value is not None, and
\* book_tags and highlight_tags are always keys, "" for an empty tag list.
C7_NoNoneInMetadata ==
    \A n \in 1..DocumentCount :
        LET metadata == llama_documents[n].metadata
            highlight == Flat[emitted_at[n].at]
            source_data == raw_export_data[emitted_at[n].src]
        IN  /\ \A k \in DOMAIN metadata : metadata[k] # None
            /\ \A k \in book_metadata_keys :
                  k \in DOMAIN metadata <=> Get(source_data, k, None) # None
            /\ \A k \in DOMAIN HighlightKeys :
                  k \in DOMAIN metadata <=> Get(highlight, HighlightKeys[k], None) # None
            /\ {"book_tags", "highlight_tags"} \subseteq DOMAIN metadata
            /\ Get(source_data, "book_tags", PyList(<<>>)).v = <<>>
                  => metadata["book_tags"] = PyStr(<<>>)
            /\ Get(highlight, "tags", PyList(<<>>)).v = <<>>
                  => metadata["highlight_tags"] = PyStr(<<>>)

\* A record of a highlight with a None color, a url and no tags, in a source
\* with a None author.
C7_Witness ==
    \E n \in 1..DocumentCount :
        LET highlight == Flat[emitted_at[n].at]
            source_data == raw_export_data[emitted_at[n].src]
        IN  /\ "color" \in DOMAIN highlight /\ highlight["color"] = None
            /\ "url" \in DOMAIN highlight /\ highlight["url"] # None
            /\ "tags" \in DOMAIN highlight /\ highlight["tags"] = PyList(<<>>)
            /\ "author" \in DOMAIN source_data /\ source_data["author"] = None
            /\ "color" \notin DOMAIN llama_documents[n].metadata

\* C10: a failure while turning one raw highlight into a record never ends the
\* run: the loop goes on to the remaining highlights and sources.
C10_FailureIsIsolated == ~(norm_pc = "raised" /\ hl_idx >= 1)

\* The ids that are missing or falsy: None (no id key, or null), 0, "".
FalsyIds == {None, PyInt(<<"0">>), PyStr(<<>>)}

\* The loop is at a highlight whose id is missing or falsy.
AtFalsyId ==
    /\ norm_pc = "loop"
    /\ src_idx <= Len(raw_export_data)
    /\ hl_idx >= 1
    /\ Get(Highlights(raw_export_data[src_idx])[hl_idx], "id", None) \in FalsyIds

\* C20: the pass of the loop over a highlight whose id is missing or falsy
\* leaves the documents and the seen set as they are and moves on to the next
\* highlight; no document is ever emitted for such a highlight and no such id
\* is ever in the seen set, however many of them came before.
C20_FalsyIdSkipped ==
    [][/\ AtFalsyId =>
              /\ llama_documents' = llama_documents
              /\ processed_highlight_ids' = processed_highlight_ids
              /\ visited' = visited + 1
              /\ norm_pc' = "loop"
       /\ \A n \in 1..Len(emitted_at') : IdAt(emitted_at'[n].at) \notin FalsyIds
       /\ processed_highlight_ids' \cap FalsyIds = {}]_vars

\* A run over a highlight without id, one with id 0 and one with id 1, all
\* with text, returned the record of the third alone.
C20_Witness ==
    /\ norm_pc = "returned"
    /\ Len(Flat) = 3
    /\ "id" \notin DOMAIN Flat[1] /\ NonBlank(1)
    /\ IdAt(2) = PyInt(<<"0">>) /\ NonBlank(2)
    /\ IdAt(3) = PyInt(<<"1">>) /\ NonBlank(3)
    /\ DocumentCount = 1
    /\ emitted_at[1].at = 3
    /\ processed_highlight_ids = {PyInt(<<"1">>)}

\* The note of the highlight at flat index i is a non-empty string.
HasNote(i) == "note" \in DOMAIN Flat[i] /\ Flat[i]["note"] \notin {None, PyStr(<<>>)}

\* The body a record of the highlight at flat index i is to have.
BodyAt(i) ==
    IF HasNote(i)
    THEN PyStr(TextAt(i).v \o <<"\n\nNote: ">> \o Flat[i]["note"].v)
    ELSE TextAt(i)

\* The documents are, in order, records of highlights at increasing flat
\* indexes of the export.
OutputIsSubsequence ==
    /\ Len(emitted_at) = DocumentCount
    /\ \A n \in 1..DocumentCount :
          /\ emitted_at[n].at \in 1..Len(Flat)
          /\ n > 1 => emitted_at[n - 1].at < emitted_at[n].at
          /\ HighlightIdOf(llama_documents[n]) = IdAt(emitted_at[n].at)
          /\ llama_documents[n].text = BodyAt(emitted_at[n].at)

\* C21: every step of a run leaves the documents as they are or appends one
\* record to them, and the documents are a subsequence of the highlights
\* flattened in source order then highlight order; the body of each record is
\* the text of its highlight, followed by the note suffix exactly when the note
\* is non-empty.
C21_OutputIsOrderedSubsequence ==
    [][/\ \/ llama_documents' = llama_documents
          \/ /\ Len(llama_documents') = DocumentCount + 1
             /\ SubSeq(llama_documents', 1, DocumentCount) = llama_documents
       /\ OutputIsSubsequence']_vars

\* A run over two sources, a highlight with a note in the first, then one
\* without id and one with an empty note in the second, returned the records
\* of the first and the third, the first with the note suffix.
C21_Witness ==
    /\ norm_pc = "returned"
    /\ Len(raw_export_data) = 2
    /\ Len(Highlights(raw_export_data[1])) = 1
    /\ Len(Flat) = 3
    /\ HasNote(1) /\ HasId(1)
    /\ ~HasId(2)
    /\ HasId(3) /\ "note" \in DOMAIN Flat[3] /\ Flat[3]["note"] = PyStr(<<>>)
    /\ DocumentCount = 2
    /\ llama_documents[1].text = PyStr(<<"h", "i", "\n\nNote: ", "n">>)
    /\ llama_documents[2].text = PyStr(<<"h", "i">>)
    /\ llama_documents[2].metadata["highlight_id"] = PyInt(<<"2">>)

\* C23: no two records accumulated by one run have the same identity string,
\* whether the highlight ids are integers or strings.
C23_DistinctIdentities ==
    \A m, n \in 1..DocumentCount :
        m # n => llama_documents[m].id_ # llama_documents[n].id_

ResultsOf(p) ==
    IF "results" \in DOMAIN pages[p] /\ pages[p]["results"] # None
    THEN pages[p]["results"].v
    ELSE <<>>

\* The sources of the first k pages, in page order.
RECURSIVE FirstPages(_)
FirstPages(k) == IF k = 0 THEN <<>> ELSE FirstPages(k - 1) \o ResultsOf(k)

PagesFetched ==
    Cardinality({i \in 1..Len(requests_made) : requests_made[i].answer = "ok"})

\* C15: a request that fails otherwise than by a rate-limit response is the
\* last request of the run: the function has returned, without another
\* request, the sources of the pages fetched before, in page order.
C15_FailureReturnsPartial ==
    \A i \in 1..Len(requests_made) :
        requests_made[i].answer \in FailureKinds =>
            /\ i = Len(requests_made)
            /\ fetch_pc = "returned"
            /\ full_data = FirstPages(PagesFetched)

\* The first page was fetched, the request of the second failed after a
\* rate-limit retry: the run returned the sources of the first page alone.
C15_Witness ==
    /\ fetch_pc = "returned"
    /\ Len(pages) = 2
    /\ ResultsOf(1) # <<>> /\ ResultsOf(2) # <<>>
    /\ Len(requests_made) = 3
    /\ requests_made[1].answer = "ok"
    /\ requests_made[2].answer = "rate_limited"
    /\ requests_made[3].answer = "http_error"
    /\ full_data = ResultsOf(1)

\* Request i was answered with a rate-limit response.
RateLimited(i) == requests_made[i].answer = "rate_limited"

\* After request i the loop asked for the same page again.
SamePageAgain(i) ==
    /\ i < Len(requests_made) =>
          requests_made[i + 1].page_cursor = requests_made[i].page_cursor
    /\ i = Len(requests_made) =>
          /\ fetch_pc = "loop"
          /\ next_page_cursor = requests_made[i].page_cursor

\* The sources of every page fetched so far are in full_data once, in page
\* order; the loop goes on with the cursor of the next page while the last
\* page fetched carried one, and returns when it carried none.
PagesOnceInOrder ==
    /\ full_data = FirstPages(PagesFetched)
    /\ (fetch_pc = "loop" /\ PagesFetched >= 1) =>
          /\ PagesFetched < Len(pages)
          /\ next_page_cursor = Cursor(PagesFetched + 1)
    /\ (/\ fetch_pc = "returned"
        /\ requests_made[Len(requests_made)].answer = "ok") =>
          PagesFetched = Len(pages)

\* C18: every rate-limit response is followed by a request of the same page,
\* nothing having been appended, and every page's sources are in the result
\* once and in page order.
C18_RateLimitRetries ==
    /\ \A i \in 1..Len(requests_made) : RateLimited(i) => SamePageAgain(i)
    /\ PagesOnceInOrder

\* The Retry-After headers int() reads as a wait: none, and "5".
SecondsHeader == [h \in {"Retry-After"} |-> <<"5">>]
Waitable(headers) == headers \in {<<>>, SecondsHeader}
ExpectedWait(headers) == IF headers = <<>> THEN 60 ELSE 5

\* The waits of the rate-limit responses of a log, in order.
RECURSIVE ExpectedWaits(_)
ExpectedWaits(log) ==
    IF log = <<>> THEN <<>>
    ELSE (IF Head(log).answer = "rate_limited" /\ Waitable(Head(log).headers)
          THEN <<ExpectedWait(Head(log).headers)>>
          ELSE <<>>) \o ExpectedWaits(Tail(log))

\* What the code does on a rate-limit response (C18): when the Retry-After
\* header is absent or a non-negative integer the loop waits that many seconds
\* (60 when absent) and asks for the same page again, nothing having been
\* appended; when Retry-After is not an integer, or is negative, the run ends
\* like after any other failure; every page's sources are in the result once
\* and in page order.
C18_RateLimitRetriesWhenParsed ==
    /\ \A i \in 1..Len(requests_made) :
          RateLimited(i) =>
              IF Waitable(requests_made[i].headers)
              THEN SamePageAgain(i)
              ELSE i = Len(requests_made) /\ fetch_pc = "returned"
    /\ slept = ExpectedWaits(requests_made)
    /\ PagesOnceInOrder

\* The request of the second page was answered twice with a rate-limit
\* response, without and with Retry-After: the run waited 60 and 5, asked for
\* the same cursor three times and returned both pages in order.
C18_Witness ==
    /\ fetch_pc = "returned"
    /\ Len(pages) = 2
    /\ Len(requests_made) = 4
    /\ requests_made[1].answer = "ok"
    /\ RateLimited(2) /\ RateLimited(3)
    /\ requests_made[4].answer = "ok"
    /\ \A i \in 2..4 : requests_made[i].page_cursor = Cursor(2)
    /\ slept = <<60, 5>>
    /\ ResultsOf(1) # <<>> /\ ResultsOf(2) # <<>>
    /\ full_data = ResultsOf(1) \o ResultsOf(2)

\* ------------------------------------- claims: the ingestion entry point
\* READWISE_API_KEY is unset or empty.
TokenAbsent == env_token \in {None, PyStr(<<>>)}

\* C16: a run of ingest.py without the API token reads the token once and ends
\* with the configuration-error report, having made no request, normalized
\* nothing and written nothing to the store; the shell process, which has no
\* token, never reads it, whatever setup_pipeline and query_knowledge_base do.
C16_NoTokenNoIngestion ==
    /\ (ingest_pc # "idle" /\ TokenAbsent) =>
          /\ ingest_pc \in {"start", "done"}
          /\ ingest_pc = "done" =>
                ingest_report = "configuration error" /\ token_reads = 1
          /\ fetch_pc = "idle" /\ requests_made = <<>>
          /\ norm_pc = "idle" /\ visited = 0
          /\ stored_ids = {}
          /\ store = [dir |-> FALSE, collection |-> FALSE]
          /\ calls.embed = 0 /\ calls.store = 0
    /\ ingest_pc = "idle" =>
          /\ token_reads = 0
          /\ fetch_pc = "idle" /\ requests_made = <<>>

\* A run of ingest.py with READWISE_API_KEY unset has ended with the
\* configuration-error report.
C16_Witness ==
    /\ env_token = None
    /\ ingest_pc = "done"
    /\ ingest_report = "configuration error"
    /\ token_reads = 1
    /\ requests_made = <<>>

\* C24: every run of fetch_all_highlights returns, when the server gives
\* finitely many rate-limit responses and its chain of next cursors is finite.
C24_FetchReturns == <>(fetch_pc = "returned")

\* While the loop runs, the server's pages and rate-limit responses allow it
\* one more request: it is never the count of requests that stops the loop.
C24_LoopCountsNothing == fetch_pc = "loop" => Len(requests_made) < MaxRequests

\* A run returned every page after as many requests as the server's pages and
\* rate-limit responses called for: one for each of MaxPages pages and one for
\* each of MaxRetries rate-limit responses.
C24_Witness ==
    /\ fetch_pc = "returned"
    /\ Len(pages) = MaxPages
    /\ Len(requests_made) = MaxPages + MaxRetries
    /\ RateLimitedSoFar = MaxRetries
    /\ PagesFetched = MaxPages
    /\ full_data = FirstPages(MaxPages)
    /\ full_data # <<>>

====
